---- MODULE Spec2Model ----
(***************************************************************************)
(* Model of insta (src/insta.go): a CLI that brings the services of an     *)
(* embedded compose project up and down through the docker compose         *)
(* api.Service backend and execs commands in a running service.            *)
(*                                                                         *)
(* One run of the binary is one pass through main: createDockerService,    *)
(* app.Run dispatching one command action, then the statements that follow *)
(* app.Run.  The backend keeps its state (the running services) between    *)
(* runs of the binary, so the model launches the binary again and again    *)
(* against the same backend state.                                         *)
(*                                                                         *)
(* Service names are sequences of characters, so that strings.HasSuffix    *)
(* is computed and not assumed.                                            *)
(***************************************************************************)
EXTENDS Naturals, Sequences, FiniteSets

VARIABLES
    project,    \* p.Services of the loaded project: the declared service names
    running,    \* backend state: the services that have a running container
    pc,         \* position of the current run of the binary in main
    cmd,        \* the command app.Run dispatches to in this run
    args,       \* cCtx.Args().Slice() of this run
    reqs,       \* the backend requests this run has issued, in order
    acted,      \* a command action has run in this process
    callerErr,  \* the err value the command action received from its callee
    fatalAt,    \* the function whose log.Fatal call ended this run
    exitCode,   \* 0 or 1 once the run has ended, 2 while it has not
    stdout,     \* fmt.Println lines of this run
    last,       \* the most recent up/down call of this run
    prev,       \* the up/down call of the run before, when this run continues it
    att,        \* the most recent connectToService call of this run
    svcs,       \* printServices: its services argument
    nArg,       \* printServices: cCtx.NArg()
    todo,       \* printServices: services the range loop has not visited
    printed,    \* printServices: the names printed so far
    cpc         \* printServices: position in the call

vars == <<project, running, pc, cmd, args, reqs, acted, callerErr, fatalAt,
          exitCode, stdout, last, prev, att, svcs, nArg, todo, printed, cpc>>

mainVars == <<project, running, pc, cmd, args, reqs, acted, callerErr, fatalAt,
              exitCode, stdout, last, prev, att>>

classifyVars == <<svcs, nArg, todo, printed, cpc>>

----------------------------------------------------------------------------
(* Names *)

web == <<"w", "e", "b">>

webData == <<"w", "e", "b", "-", "d", "a", "t", "a">>

webInit == <<"w", "e", "b", "-", "i", "n", "i", "t">>

api == <<"a", "p", "i">>

worker == <<"w", "o", "r", "k", "e", "r">>

cacheData == <<"c", "a", "c", "h", "e", "-", "d", "a", "t", "a">>

dbInit == <<"d", "b", "-", "i", "n", "i", "t">>

myService == <<"m", "y", "-", "s", "e", "r", "v", "i", "c", "e">>

\* Names a project may declare and a command line may name.
ServiceNames == {web, webData, myService}

\* Names handed to printServices.
ClassifyNames == {web, webData, webInit, api, worker, cacheData, dbInit, myService}

\* Longest argument list of a command line.
MaxArgs == 2

\* Most services in a list handed to printServices.
MaxListed == 3

Range(s) == {s[i] : i \in DOMAIN s}

ArgLists == UNION {[1..n -> ServiceNames] : n \in 0..MaxArgs}

RECURSIVE SetToSeq(_)
SetToSeq(S) ==
    IF S = {} THEN <<>>
    ELSE LET x == CHOOSE y \in S : TRUE IN <<x>> \o SetToSeq(S \ {x})

----------------------------------------------------------------------------
(* The container backend (api.Service of docker compose).  Its code is not *)
(* part of the repository; it is modelled from the backend contract:       *)
(* start and stop address the named services, or every service of the      *)
(* project when no name is given, reconcile rather than duplicate, reject  *)
(* a name the project does not declare without touching anything, and an   *)
(* exec needs a running instance of its service.  avail says whether the   *)
(* backend can be reached for this call.                                   *)

\* The services a request addresses: an empty list means all of them.
Targets(p, services) == IF services = <<>> THEN p ELSE Range(services)

BackendUp(p, run, services, avail) ==
    IF ~avail THEN [err |-> "unavailable", running |-> run]
    ELSE IF ~(Range(services) \subseteq p)
         THEN [err |-> "notfound", running |-> run]
         ELSE [err |-> "nil", running |-> run \cup Targets(p, services)]

BackendDown(p, run, services, avail) ==
    IF ~avail THEN [err |-> "unavailable", running |-> run]
    ELSE IF ~(Range(services) \subseteq p)
         THEN [err |-> "notfound", running |-> run]
         ELSE [err |-> "nil", running |-> run \ Targets(p, services)]

\* cmdOk: the command run inside the container exits with status 0.
BackendExec(run, service, avail, cmdOk) ==
    IF ~avail THEN [err |-> "unavailable", running |-> run]
    ELSE IF service \notin run THEN [err |-> "notrunning", running |-> run]
    ELSE IF ~cmdOk THEN [err |-> "status", running |-> run]
    ELSE [err |-> "nil", running |-> run]

----------------------------------------------------------------------------
(* The functions of insta.go.  Each yields what one call does: the backend *)
(* requests it issues, the backend state it leaves, the backend's error,   *)
(* whether the call ended the process with log.Fatalln, and the value it   *)
(* returned ("none" when it never returned).                               *)

Request(by, op, p, services, service, command, err) ==
    [by |-> by, op |-> op, project |-> p, services |-> services,
     service |-> service, command |-> command, err |-> err]

\* Faulty variant: one srv.Up call per service instead of one batched call.
runServicesPerService(p, run, services, avail) ==
    LET r == BackendUp(p, run, services, avail)
        names == IF services = <<>> THEN SetToSeq(p) ELSE services
    IN  [reqs |-> [i \in 1..Len(names) |->
                     Request("runServices", "up", p, <<names[i]>>, <<>>, <<>>, r.err)],
         running |-> r.running,
         err |-> r.err,
         fatal |-> r.err # "nil",
         ret |-> IF r.err # "nil" THEN "none" ELSE "nil"]

\* Faulty variant: a start that does not reconcile and fails on a running target.
runServicesNoReconcile(p, run, services, avail) ==
    LET r == BackendUp(p, run, services, avail)
        e == IF r.err = "nil" /\ Targets(p, services) \cap run # {}
             THEN "conflict" ELSE r.err
    IN  [reqs |-> <<Request("runServices", "up", p, services, <<>>, <<>>, e)>>,
         running |-> IF e = "nil" THEN r.running ELSE run,
         err |-> e,
         fatal |-> e # "nil",
         ret |-> IF e # "nil" THEN "none" ELSE "nil"]

\* Faulty variant: StartOptions without the Services field set.
runServicesIgnoreArgs(p, run, services, avail) ==
    LET r == BackendUp(p, run, <<>>, avail)
    IN  [reqs |-> <<Request("runServices", "up", p, <<>>, <<>>, <<>>, r.err)>>,
         running |-> r.running,
         err |-> r.err,
         fatal |-> r.err # "nil",
         ret |-> IF r.err # "nil" THEN "none" ELSE "nil"]

\* runServices: one srv.Up with the whole project and the given names; an
\* error ends the process in log.Fatalln, so only nil is ever returned.
runServices(p, run, services, avail) ==
    LET r == BackendUp(p, run, services, avail)
    IN  [reqs |-> <<Request("runServices", "up", p, services, <<>>, <<>>, r.err)>>,
         running |-> r.running,
         err |-> r.err,
         fatal |-> r.err # "nil",
         ret |-> IF r.err # "nil" THEN "none" ELSE "nil"]

\* Faulty variant: DownOptions without the Services field set.
downServicesIgnoreArgs(p, run, services, avail) ==
    LET r == BackendDown(p, run, <<>>, avail)
    IN  [reqs |-> <<Request("downServices", "down", {}, <<>>, <<>>, <<>>, r.err)>>,
         running |-> r.running,
         err |-> r.err,
         fatal |-> r.err # "nil",
         ret |-> IF r.err # "nil" THEN "none" ELSE "nil"]

\* downServices: one srv.Down with the project name and the given names.
downServices(p, run, services, avail) ==
    LET r == BackendDown(p, run, services, avail)
    IN  [reqs |-> <<Request("downServices", "down", {}, services, <<>>, <<>>, r.err)>>,
         running |-> r.running,
         err |-> r.err,
         fatal |-> r.err # "nil",
         ret |-> IF r.err # "nil" THEN "none" ELSE "nil"]

\* Faulty variant: start the service before the exec.
connectToServiceAutoStart(p, run, service, command, avail, cmdOk) ==
    LET u == BackendUp(p, run, <<service>>, avail)
        r == BackendExec(u.running, service, avail, cmdOk)
    IN  [reqs |-> <<Request("connectToService", "up", p, <<service>>, <<>>, <<>>, u.err),
                    Request("connectToService", "exec", {}, <<>>, service, <<command>>, r.err)>>,
         running |-> r.running,
         err |-> r.err,
         fatal |-> r.err # "nil",
         ret |-> "none"]

\* connectToService: one srv.Exec; an error ends the process in
\* log.Fatalln; the function has no return value.
connectToService(p, run, service, command, avail, cmdOk) ==
    LET r == BackendExec(run, service, avail, cmdOk)
    IN  [reqs |-> <<Request("connectToService", "exec", {}, <<>>, service, <<command>>, r.err)>>,
         running |-> r.running,
         err |-> r.err,
         fatal |-> r.err # "nil",
         ret |-> "none"]

\* Whether name ends with sfx (strings.HasSuffix).
HasSuffix(name, sfx) ==
    /\ Len(name) >= Len(sfx)
    /\ SubSeq(name, Len(name) - Len(sfx) + 1, Len(name)) = sfx

nonServiceSuffix ==
    << <<"-", "d", "a", "t", "a">>,
       <<"-", "i", "n", "i", "t">>,
       <<"-", "s", "e", "r", "v", "e", "r">> >>

\* The flag printServices computes for one name.
hasNonServiceSuffix(serviceName) ==
    \E i \in DOMAIN nonServiceSuffix : HasSuffix(serviceName, nonServiceSuffix[i])

----------------------------------------------------------------------------
(* State *)

\* "default" is the first command of the app, the one without a name;
\* "help" is a command line that matches no command; "usageError" is one
\* app.Run rejects.
Cmds == {"default", "run", "connect", "down", "update", "help", "usageError"}

NoCall ==
    [op |-> "none", by |-> "none", services |-> <<>>, err |-> "nil",
     failed |-> FALSE, before |-> {}, after |-> {}]

NoAttach ==
    [service |-> <<>>, err |-> "nil", failed |-> FALSE,
     before |-> {}, after |-> {}, reqs |-> <<>>]

\* What one up or down call leaves in last.
Call(by, op, services, r, before) ==
    [op |-> op, by |-> by, services |-> services, err |-> r.err,
     failed |-> r.fatal \/ r.ret \notin {"nil", "none"},
     before |-> before, after |-> r.running]

\* Whether a run with command c and arguments a continues the call c0 that
\* the run before it ended with: the same bring-up again, a bring-down of
\* web after a bring-up of everything, or a bring-down of everything after a
\* bring-down of web that found every service running.
Continues(c0, c, a) ==
    /\ ~c0.failed
    /\ \/ c = "default" /\ c0.by = "runServices" /\ c0.services = a
       \/ c = "down" /\ a = <<web>> /\ c0.by = "runServices" /\ c0.services = <<>>
       \/ /\ c = "down" /\ a = <<>>
          /\ c0.by = "downServices" /\ c0.services = <<web>>
          /\ c0.before = project

Attach(service, r, before) ==
    [service |-> service, err |-> r.err, failed |-> r.fatal,
     before |-> before, after |-> r.running, reqs |-> r.reqs]

FirstArg(a) == IF a = <<>> THEN <<>> ELSE a[1]

ClassifyIdle ==
    /\ svcs = {}
    /\ nArg = 0
    /\ todo = {}
    /\ printed = <<>>
    /\ cpc = "off"

MainIdle ==
    /\ running = {}
    /\ pc = "idle"
    /\ cmd = "help"
    /\ args = <<>>
    /\ reqs = <<>>
    /\ acted = FALSE
    /\ callerErr = "none"
    /\ fatalAt = "none"
    /\ exitCode = 2
    /\ stdout = <<>>
    /\ last = NoCall
    /\ prev = NoCall
    /\ att = NoAttach

\* The project is what createDockerProject loaded from the embedded
\* docker-compose.yaml; the backend runs nothing yet.
Init ==
    /\ project \in SUBSET ServiceNames
    /\ MainIdle
    /\ ClassifyIdle

----------------------------------------------------------------------------
(* main *)

\* The binary is started with a command line.
Launch ==
    /\ pc \in {"idle", "exited"}
    /\ \E c \in Cmds, a \in ArgLists :
          /\ c \in {"help", "usageError"} => a = <<>>
          /\ cmd' = c
          /\ args' = a
          /\ prev' = IF Continues(last, c, a) THEN last ELSE NoCall
    /\ pc' = "init"
    /\ reqs' = <<>>
    /\ acted' = FALSE
    /\ callerErr' = "none"
    /\ fatalAt' = "none"
    /\ exitCode' = 2
    /\ stdout' = <<>>
    /\ att' = NoAttach
    /\ last' = NoCall
    /\ UNCHANGED <<project, running>>
    /\ UNCHANGED classifyVars

Fatal(where) ==
    /\ pc' = "exited"
    /\ exitCode' = 1
    /\ fatalAt' = where

\* createDockerService and the check of its error in main.
createDockerService ==
    /\ pc = "init"
    /\ \E ok \in BOOLEAN :
          IF ok THEN pc' = "appRun" /\ UNCHANGED <<exitCode, fatalAt>>
          ELSE Fatal("main")
    /\ UNCHANGED <<project, running, cmd, args, reqs, acted, callerErr, stdout,
                   last, prev, att>>
    /\ UNCHANGED classifyVars

\* app.Run fails before any action (a flag it does not know): log.Fatal.
AppRunError ==
    /\ pc = "appRun"
    /\ cmd = "usageError"
    /\ Fatal("main")
    /\ UNCHANGED <<project, running, cmd, args, reqs, acted, callerErr, stdout,
                   last, prev, att>>
    /\ UNCHANGED classifyVars

\* app.Run matches no command: it shows the help and returns nil.
AppRunHelp ==
    /\ pc = "appRun"
    /\ cmd = "help"
    /\ pc' = "connect1"
    /\ UNCHANGED <<project, running, cmd, args, reqs, acted, callerErr, fatalAt,
                   exitCode, stdout, last, prev, att>>
    /\ UNCHANGED classifyVars

\* The actions of run, connect and update: print the task and return nil.
ActionPrintTask ==
    /\ pc = "appRun"
    /\ cmd \in {"run", "connect", "update"}
    /\ stdout' = Append(stdout, <<cmd, "task", FirstArg(args)>>)
    /\ acted' = TRUE
    /\ pc' = "connect1"
    /\ UNCHANGED <<project, running, cmd, args, reqs, callerErr, fatalAt,
                   exitCode, last, prev, att>>
    /\ UNCHANGED classifyVars

\* What the action does with the result r of runServices or downServices.
ActionResult(r, where) ==
    /\ running' = r.running
    /\ reqs' = reqs \o r.reqs
    /\ acted' = TRUE
    /\ callerErr' = r.ret
    /\ IF r.fatal THEN Fatal(where)
       ELSE IF r.ret # "nil" THEN Fatal("action")
       ELSE pc' = "connect1" /\ UNCHANGED <<exitCode, fatalAt>>

\* The action of the first command: runServices with the arguments.
ActionRunServices ==
    /\ pc = "appRun"
    /\ cmd = "default"
    /\ \E avail \in BOOLEAN :
          LET r == runServices(project, running, args, avail)
          IN  /\ ActionResult(r, "runServices")
              /\ last' = Call("runServices", "up", args, r, running)
    /\ UNCHANGED <<project, cmd, args, stdout, prev, att>>
    /\ UNCHANGED classifyVars

\* The action of down: downServices with the arguments.
ActionDownServices ==
    /\ pc = "appRun"
    /\ cmd = "down"
    /\ \E avail \in BOOLEAN :
          LET r == downServices(project, running, args, avail)
          IN  /\ ActionResult(r, "downServices")
              /\ last' = Call("downServices", "down", args, r, running)
    /\ UNCHANGED <<project, cmd, args, stdout, prev, att>>
    /\ UNCHANGED classifyVars

\* One connectToService call of main, after app.Run has returned nil.
MainConnect(at, command, next) ==
    /\ pc = at
    /\ \E avail \in BOOLEAN, cmdOk \in BOOLEAN :
          LET r == connectToService(project, running, myService, command,
                                    avail, cmdOk)
          IN  /\ running' = r.running
              /\ reqs' = reqs \o r.reqs
              /\ att' = Attach(myService, r, running)
              /\ IF r.fatal THEN Fatal("connectToService")
                 ELSE pc' = next /\ UNCHANGED <<exitCode, fatalAt>>
    /\ UNCHANGED <<project, cmd, args, acted, callerErr, stdout, last, prev>>
    /\ UNCHANGED classifyVars

\* Faulty variant: main ends when app.Run returns.
MainEndsAfterAppRun ==
    /\ pc = "connect1"
    /\ pc' = "exited"
    /\ exitCode' = 0
    /\ UNCHANGED <<project, running, cmd, args, reqs, acted, callerErr, fatalAt,
                   stdout, last, prev, att>>
    /\ UNCHANGED classifyVars

ConnectFirst == MainConnect("connect1", "echo hello world", "connect2")

ConnectSecond == MainConnect("connect2", "cd / && ls", "mainDown")

\* The end of main: srv.Down for the whole project, then the process ends.
MainDown ==
    /\ pc = "mainDown"
    /\ stdout' = Append(stdout, <<"Docker service down...">>)
    /\ \E avail \in BOOLEAN :
          LET b == BackendDown(project, running, <<>>, avail)
              r == [reqs |-> <<Request("main", "down", {}, <<>>, <<>>, <<>>, b.err)>>,
                    running |-> b.running, err |-> b.err,
                    fatal |-> b.err # "nil", ret |-> "none"]
          IN  /\ running' = r.running
              /\ reqs' = reqs \o r.reqs
              /\ last' = Call("main", "down", <<>>, r, running)
              /\ IF r.fatal THEN Fatal("main")
                 ELSE pc' = "exited" /\ exitCode' = 0 /\ UNCHANGED fatalAt
    /\ UNCHANGED <<project, cmd, args, acted, callerErr, prev, att>>
    /\ UNCHANGED classifyVars

Next ==
    \/ Launch
    \/ createDockerService
    \/ AppRunError
    \/ AppRunHelp
    \/ ActionPrintTask
    \/ ActionRunServices
    \/ ActionDownServices
    \/ ConnectFirst
    \/ ConnectSecond
    \/ MainDown

Spec == Init /\ [][Next]_vars

----------------------------------------------------------------------------
(* printServices, called on its own with a services map and an argument    *)
(* count.  types.Services is a map: the range loop visits the services in  *)
(* any order.                                                              *)

\* The loop body: the name is printed when the flag is set.
PrintLine(out, serviceName) ==
    IF hasNonServiceSuffix(serviceName) THEN Append(out, serviceName) ELSE out

\* The guard on the argument count.
PrintServicesEnter ==
    /\ cpc = "call"
    /\ cpc' = IF nArg > 0 THEN "done" ELSE "loop"
    /\ UNCHANGED <<svcs, nArg, todo, printed>>
    /\ UNCHANGED mainVars

\* One iteration of the range loop.
PrintServicesIter ==
    /\ cpc = "loop"
    /\ \E s \in todo :
          /\ printed' = PrintLine(printed, s)
          /\ todo' = todo \ {s}
    /\ UNCHANGED <<svcs, nArg, cpc>>
    /\ UNCHANGED mainVars

\* The loop has visited every service.
PrintServicesReturn ==
    /\ cpc = "loop"
    /\ todo = {}
    /\ cpc' = "done"
    /\ UNCHANGED <<svcs, nArg, todo, printed>>
    /\ UNCHANGED mainVars

InitClassify ==
    /\ project = {}
    /\ MainIdle
    /\ svcs \in {S \in SUBSET ClassifyNames : Cardinality(S) <= MaxListed}
    /\ nArg \in 0..MaxArgs
    /\ todo = svcs
    /\ printed = <<>>
    /\ cpc = "call"

NextClassify ==
    \/ PrintServicesEnter
    \/ PrintServicesIter
    \/ PrintServicesReturn

SpecClassify == InitClassify /\ [][NextClassify]_vars

----------------------------------------------------------------------------
(* Properties *)

IsUp(q) == q.op = "up"

IsExec(q) == q.op = "exec"

IsMainDown(q) == q.by = "main"

Ups == SelectSeq(reqs, IsUp)

Execs == SelectSeq(reqs, IsExec)

MainDowns == SelectSeq(reqs, IsMainDown)

Orchestrator == {"runServices", "downServices", "connectToService"}

\* C1: a bring-up with an empty service list issues exactly one start
\* request, and that request carries every service the project declares and
\* names no subset of them; never one request per service.
C1_BatchedStart ==
    (acted /\ cmd = "default" /\ args = <<>>) =>
        /\ Len(Ups) = 1
        /\ Ups[1].by = "runServices"
        /\ Ups[1].project = project
        /\ Ups[1].services = <<>>

C1_Witness ==
    /\ acted /\ cmd = "default" /\ args = <<>>
    /\ Cardinality(project) >= 2
    /\ ~last.failed
    /\ running = project

C3_DownWebThenAll ==
    /\ (/\ last.by = "downServices" /\ last.services = <<web>>
        /\ prev.by = "runServices" /\ prev.services = <<>>
        /\ web \in project
        /\ last.err # "unavailable") =>
           /\ ~last.failed
           /\ last.before = project
           /\ last.after = project \ {web}
    /\ (/\ last.by = "downServices" /\ last.services = <<>>
        /\ prev.by = "downServices" /\ prev.services = <<web>>
        /\ last.err # "unavailable") =>
           /\ ~last.failed
           /\ last.err = "nil"
           /\ web \notin last.before
           /\ last.before = project \ {web}
           /\ last.after = {}

C3_Witness ==
    /\ last.by = "downServices" /\ last.services = <<>>
    /\ prev.by = "downServices" /\ prev.services = <<web>>
    /\ prev.before = project
    /\ Cardinality(project) >= 2
    /\ last.before # {}
    /\ ~last.failed
    /\ running = {}

C5_ErrorsReturned ==
    \A i \in DOMAIN reqs :
        (reqs[i].by \in Orchestrator /\ reqs[i].err # "nil") =>
            /\ fatalAt \notin Orchestrator
            /\ callerErr = reqs[i].err

\* C6: an attach to a declared service that has no running instance fails
\* with the not-running error (or the backend's own error when it cannot be
\* reached), issues no start request, and leaves the service not running.
C6_AttachDoesNotStart ==
    (att.service \in project /\ att.service \notin att.before) =>
        /\ att.failed
        /\ att.err \in {"notrunning", "unavailable"}
        /\ \A i \in DOMAIN att.reqs : att.reqs[i].op = "exec"
        /\ Len(att.reqs) = 1
        /\ att.service \notin att.after
        /\ att.service \notin running

C6_Witness ==
    /\ att.service \in project
    /\ att.service \notin att.before
    /\ att.before # {}
    /\ att.err = "notrunning"
    /\ pc = "exited"

\* The names the default listing is to show: those that end with none of
\* the markers.
Primary(S) == {n \in S : ~hasNonServiceSuffix(n)}

\* C8: called without arguments, printServices prints exactly the primary
\* services: the names that end with none of -data, -init, -server.
C8_ListsPrimary ==
    (cpc = "done" /\ nArg = 0) => Range(printed) = Primary(svcs)

\* C9: the connect command performs the attach: once its action has run,
\* one exec request has been issued, for the service named on the command
\* line.
C9_ConnectAttaches ==
    (acted /\ cmd = "connect" /\ args # <<>>) =>
        /\ Len(Execs) = 1
        /\ Execs[1].service = args[1]

====
